---- MODULE Spec2Model ----
(***************************************************************************)
(* Diabetes Health Management API (main.py, schemas.py).                   *)
(*                                                                         *)
(* State: the backing store (one collection per record variant), the      *)
(* store handle `db`, the wall clock, and the response of the last         *)
(* handler that ran.  Every handler performs at most one store operation, *)
(* so one action per handler covers every interleaving of concurrent      *)
(* requests.                                                               *)
(*                                                                         *)
(* Units: instants are whole days; glucose values and the Meal macros are *)
(* integers in hundredths (7004 is 70.04); avg_mgdl is a multiple of 10   *)
(* hundredths and time-in-range is in tenths of a percent.  Arithmetic is *)
(* exact: binary floating-point error of Python floats is not modelled.   *)
(***************************************************************************)
EXTENDS Integers, Sequences, FiniteSets, TLC

VARIABLES
    db,      \* "None" (not configured), "up", or "down" (configured, unreachable)
    now,     \* datetime.now(timezone.utc), in days
    store,   \* collection name -> sequence of stored documents, in insertion order
    nextId,  \* source of fresh ObjectIds
    resp     \* what the last handler received and returned

vars == <<db, now, store, nextId, resp>>

\* ---------------------------------------------------------------- bounds
MaxDocs == 2
MaxTime == 2
MaxReadings == 3

\* ------------------------------------------------------- program constants
GlucoseMin == 20
GlucoseMax == 600
TirLow == 70
TirHigh == 180
LimitMin == 1
LimitMax == 500
DaysMin == 1
DaysMax == 90
SummaryLimit == 1000
RecentCount == 10

\* ------------------------------------------------------------- encodings
None == <<>>
Some(v) == <<v>>
IsSome(o) == Len(o) = 1
Val(o) == o[1]

Hundredths(units) == units * 100

Min2(a, b) == IF a <= b THEN a ELSE b

\* ------------------------------------------------------------ schemas.py
Variants == {"GlucoseReading", "Meal", "MedicationLog", "Activity", "Reminder"}

GlucoseReading(ts, v) ==
    [timestamp |-> ts, value_mgdl |-> v, mode |-> "manual",
     note |-> None, meal_context |-> None]

Meal(ts, carbs) ==
    [timestamp |-> ts, name |-> "Dal Khichdi", carbs_g |-> carbs,
     protein_g |-> None, fat_g |-> None, calories |-> None, note |-> None]

MedicationLog(ts, dose) ==
    [timestamp |-> ts, type |-> "insulin", brand |-> None, dose_units |-> dose,
     frequency |-> None, note |-> None]

Activity(ts, dur) ==
    [timestamp |-> ts, kind |-> "walk", duration_min |-> dur,
     calories |-> None, note |-> None]

Reminder(lbl) ==
    [label |-> lbl, time_local |-> "08:00", type |-> "glucose", enabled |-> TRUE]

\* Optional[float] = Field(None, ge=0)
OptionalGe0(o) == IsSome(o) => Val(o) >= 0

\* value_mgdl: float = Field(..., ge=20, le=600)
ValidGlucoseStrict(r) ==
    /\ r.value_mgdl > Hundredths(GlucoseMin)
    /\ r.value_mgdl < Hundredths(GlucoseMax)

ValidGlucose(r) ==
    /\ r.value_mgdl >= Hundredths(GlucoseMin)
    /\ r.value_mgdl <= Hundredths(GlucoseMax)

ValidMeal(r) ==
    /\ OptionalGe0(r.carbs_g)
    /\ OptionalGe0(r.protein_g)
    /\ OptionalGe0(r.fat_g)
    /\ OptionalGe0(r.calories)

ValidMedicationLog(r) == OptionalGe0(r.dose_units)

ValidActivity(r) == r.duration_min >= 0 /\ OptionalGe0(r.calories)

ValidReminder(r) == TRUE

Valid(variant, r) ==
    CASE variant = "GlucoseReading" -> ValidGlucose(r)
      [] variant = "Meal" -> ValidMeal(r)
      [] variant = "MedicationLog" -> ValidMedicationLog(r)
      [] variant = "Activity" -> ValidActivity(r)
      [] variant = "Reminder" -> ValidReminder(r)

\* limit: int = Query(50, ge=1, le=500)
ValidLimit(limit) == limit >= LimitMin /\ limit <= LimitMax

\* days: Optional[int] = Query(None, ge=1, le=90); InsightsWindow.days
ValidDays(d) == d >= DaysMin /\ d <= DaysMax

\* --------------------------------------------------------------- main.py
\* model_cls.__name__.lower()
_collection_name(variant) ==
    CASE variant = "GlucoseReading" -> "glucosereading"
      [] variant = "Meal" -> "meal"
      [] variant = "MedicationLog" -> "medicationlog"
      [] variant = "Activity" -> "activity"
      [] variant = "Reminder" -> "reminder"

Collections == {_collection_name(v) : v \in Variants}

\* str(ObjectId)
ObjectIdStr(n) == ToString(n)

\* d["_id"] = str(d["_id"])
_to_dict(doc) == [doc EXCEPT !._id = ObjectIdStr(doc._id)]

TotalDocs == Len(store["glucosereading"]) + Len(store["meal"])
             + Len(store["medicationlog"]) + Len(store["activity"])
             + Len(store["reminder"])

\* BSON order: a missing field sorts as null, below every date.
SortKey(doc) == IF "timestamp" \in DOMAIN doc THEN doc.timestamp ELSE -1

MatchesStrict(doc, since) ==
    IsSome(since) => ("timestamp" \in DOMAIN doc /\ doc.timestamp > Val(since))

\* filt["timestamp"] = {"$gte": since}
Matches(doc, since) ==
    IsSome(since) => ("timestamp" \in DOMAIN doc /\ doc.timestamp >= Val(since))

Eligible(docs, since) == {i \in 1..Len(docs) : Matches(docs[i], since)}

SortedAsc(docs, p) ==
    \A i \in 1..(Len(p) - 1) : SortKey(docs[p[i]]) <= SortKey(docs[p[i + 1]])

\* .sort("timestamp", -1): documents with equal keys come in any order.
SortedDesc(docs, p) ==
    \A i \in 1..(Len(p) - 1) : SortKey(docs[p[i]]) >= SortKey(docs[p[i + 1]])

Orderings(docs, since) ==
    LET E == Eligible(docs, since)
        n == Cardinality(E)
    IN  {p \in [1..n -> E] :
            /\ \A i, j \in 1..n : i # j => p[i] # p[j]
            /\ SortedDesc(docs, p)}

NoLimit(p, limit) == p

LimitedLast(p, limit) ==
    IF limit = 0 THEN p ELSE SubSeq(p, Len(p) - Min2(Len(p), limit) + 1, Len(p))

\* .limit(limit): 0 means no limit.
Limited(p, limit) ==
    IF limit = 0 THEN p ELSE SubSeq(p, 1, Min2(Len(p), limit))

\* Every sequence the cursor of _list_recent can yield.
_list_recent(collection, limit, since) ==
    LET docs == store[collection]
    IN  {[i \in 1..Len(q) |-> _to_dict(docs[q[i]])] :
            q \in {Limited(p, limit) : p \in Orderings(docs, since)}}

\* since = datetime.now(timezone.utc) - timedelta(days=days)
SinceOf(days) == IF IsSome(days) THEN Some(now - Val(days)) ELSE None


\* ------------------------------------------------- database.py (not in src)
\* insert(collection, record) -> id: stamps the creation instant, persists the
\* record under a fresh identifier and returns the identifier as a string.
create_document(collection, data) ==
    /\ store' = [store EXCEPT ![collection] =
                    Append(@, data @@ [_id |-> nextId, created_at |-> now,
                                       updated_at |-> now])]
    /\ nextId' = nextId + 1

\* Store operations a failing handler attempted: none when db is None (the
\* handler raises before touching it), one when the store is unreachable.
StoreCalls == IF db = "None" THEN 0 ELSE 1

\* ------------------------------------------------------ insert endpoints
\* 422 from request validation, 500 from the except branch, 200 otherwise.
CreateEndpoint(variant, body, cap) ==
    LET c == _collection_name(variant)
        base == [op |-> "create", collection |-> c, doc |-> body, db |-> db]
    IN  IF ~Valid(variant, body)
        THEN /\ resp' = base @@ [status |-> 422]
             /\ UNCHANGED <<db, now, store, nextId>>
        ELSE IF db # "up"
        THEN /\ resp' = base @@ [status |-> 500, store_calls |-> StoreCalls]
             /\ UNCHANGED <<db, now, store, nextId>>
        ELSE /\ TotalDocs < cap
             /\ create_document(c, body)
             /\ resp' = base @@ [status |-> 200, inserted_id |-> ObjectIdStr(nextId)]
             /\ UNCHANGED <<db, now>>

create_glucose(ts, v) == CreateEndpoint("GlucoseReading", GlucoseReading(ts, v), MaxDocs)

create_meal(ts, carbs) == CreateEndpoint("Meal", Meal(ts, carbs), MaxDocs)

create_med(ts, dose) == CreateEndpoint("MedicationLog", MedicationLog(ts, dose), MaxDocs)

create_activity(ts, dur) == CreateEndpoint("Activity", Activity(ts, dur), MaxDocs)

create_reminder(lbl) == CreateEndpoint("Reminder", Reminder(lbl), MaxDocs)

\* -------------------------------------------------------- list endpoints
\* The id returned by the handler that ran just before, when that was a
\* successful insert into this collection.
JustInserted(c) ==
    IF resp.op = "create" /\ resp.status = 200 /\ resp.collection = c
    THEN Some(resp.inserted_id) ELSE None

ListEndpointDropping(variant, limit, days) ==
    LET c == _collection_name(variant)
    IN  /\ db = "up"
        /\ store[c] # <<>>
        /\ store' = [store EXCEPT ![c] = Tail(@)]
        /\ resp' = [op |-> "list", collection |-> c, status |-> 200, at |-> now,
                    days |-> days, since |-> SinceOf(days), call_limit |-> limit,
                    items |-> <<>>, after_insert |-> None, inserted_doc |-> None]
        /\ UNCHANGED <<db, now, nextId>>

ListEndpoint(variant, limit, days) ==
    LET c == _collection_name(variant)
        base == [op |-> "list", collection |-> c]
        since == SinceOf(days)
    IN  /\ UNCHANGED <<db, now, store, nextId>>
        /\ IF ~ValidLimit(limit) \/ (IsSome(days) /\ ~ValidDays(Val(days)))
           THEN resp' = base @@ [status |-> 422]
           ELSE IF db # "up"
           THEN resp' = base @@ [status |-> 500, store_calls |-> StoreCalls]
           ELSE \E items \in _list_recent(c, limit, since) :
                    resp' = base @@ [status |-> 200, at |-> now, days |-> days,
                                     since |-> since,
                                     call_limit |-> limit, items |-> items,
                                     after_insert |-> JustInserted(c),
                                     inserted_doc |->
                                        IF IsSome(JustInserted(c))
                                        THEN Some(resp.doc) ELSE None]

list_glucose(limit, days) == ListEndpoint("GlucoseReading", limit, days)

list_meals(limit, days) == ListEndpoint("Meal", limit, days)

list_meds(limit, days) == ListEndpoint("MedicationLog", limit, days)

list_activities(limit, days) == ListEndpoint("Activity", limit, days)

list_reminders(limit) == ListEndpoint("Reminder", limit, None)

\* ---------------------------------------------------------------- summary
RECURSIVE SumSeq(_)
SumSeq(s) == IF s = <<>> THEN 0 ELSE s[1] + SumSeq(Tail(s))

MinSeq(s) == CHOOSE x \in {s[i] : i \in 1..Len(s)} : \A j \in 1..Len(s) : x <= s[j]

MaxSeq(s) == CHOOSE x \in {s[i] : i \in 1..Len(s)} : \A j \in 1..Len(s) : x >= s[j]

\* round(): nearest integer to num/den, a tie going to the even neighbour.
RoundHalfEven(num, den) ==
    LET q == num \div den
        r == num % den
    IN  IF 2 * r < den THEN q
        ELSE IF 2 * r > den THEN q + 1
        ELSE IF q % 2 = 0 THEN q ELSE q + 1

\* float(r.get("value_mgdl", 0)), in hundredths
ValueOf(r) == IF "value_mgdl" \in DOMAIN r THEN r.value_mgdl ELSE 0

InRangeExclusive(v) == Hundredths(TirLow) < v /\ v < Hundredths(TirHigh)

\* 70 <= v <= 180
InRange(v) == Hundredths(TirLow) <= v /\ v <= Hundredths(TirHigh)

AvgTruncated(values) == Some(10 * (SumSeq(values) \div (10 * Len(values))))

\* round(sum(values) / count, 1), in hundredths of mg/dL
AvgRounded(values) == Some(10 * RoundHalfEven(SumSeq(values), 10 * Len(values)))

\* round(len(in_range) / count * 100, 1), in tenths of a percent
TirRounded(values) ==
    Some(RoundHalfEven(1000 * Cardinality({i \in 1..Len(values) : InRange(values[i])}),
                       Len(values)))

StatsAlways(readings) ==
    LET values == [i \in 1..Len(readings) |-> ValueOf(readings[i])]
    IN  [count_readings |-> Len(readings),
         avg_mgdl |-> IF Len(readings) > 0 THEN AvgRounded(values) ELSE Some(0),
         min_mgdl |-> IF Len(readings) > 0 THEN Some(MinSeq(values)) ELSE Some(0),
         max_mgdl |-> IF Len(readings) > 0 THEN Some(MaxSeq(values)) ELSE Some(0),
         time_in_range_pct |-> IF Len(readings) > 0 THEN TirRounded(values) ELSE Some(0)]

\* The statistics block of get_summary.
Stats(readings) ==
    LET count == Len(readings)
        values == [i \in 1..count |-> ValueOf(readings[i])]
    IN  IF count > 0
        THEN [count_readings |-> count,
              avg_mgdl |-> AvgRounded(values),
              min_mgdl |-> Some(MinSeq(values)),
              max_mgdl |-> Some(MaxSeq(values)),
              time_in_range_pct |-> TirRounded(values)]
        ELSE [count_readings |-> count, avg_mgdl |-> None, min_mgdl |-> None,
              max_mgdl |-> None, time_in_range_pct |-> None]

SummaryResponse(days, readings) ==
    Stats(readings) @@
    [days |-> days,
     recent_readings |-> SubSeq(readings, 1, Min2(Len(readings), RecentCount))]

get_summarySwallow(days) ==
    LET c == _collection_name("GlucoseReading")
    IN  /\ UNCHANGED <<db, now, store, nextId>>
        /\ resp' = [op |-> "summary", collection |-> c, status |-> 200, at |-> now,
                    days |-> Some(days), since |-> SinceOf(Some(days)),
                    call_limit |-> SummaryLimit, items |-> <<>>,
                    body |-> SummaryResponse(days, <<>>)]

get_summary(days) ==
    LET c == _collection_name("GlucoseReading")
        base == [op |-> "summary", collection |-> c]
        since == SinceOf(Some(days))
    IN  /\ UNCHANGED <<db, now, store, nextId>>
        /\ IF ~ValidDays(days)
           THEN resp' = base @@ [status |-> 422]
           ELSE IF db # "up"
           THEN resp' = base @@ [status |-> 500, store_calls |-> StoreCalls]
           ELSE \E readings \in _list_recent(c, SummaryLimit, since) :
                    resp' = base @@ [status |-> 200, at |-> now, days |-> Some(days),
                                     since |-> since, call_limit |-> SummaryLimit,
                                     items |-> readings,
                                     body |-> SummaryResponse(days, readings)]

\* ----------------------------------------------------------- environment
Tick == /\ now < MaxTime
        /\ now' = now + 1
        /\ UNCHANGED <<db, store, nextId, resp>>

StoreDown == /\ db = "up"
             /\ db' = "down"
             /\ UNCHANGED <<now, store, nextId, resp>>

StoreUp == /\ db = "down"
           /\ db' = "up"
           /\ UNCHANGED <<now, store, nextId, resp>>

\* ------------------------------------------------------ the whole service
Times == 0..MaxTime
GlucoseInputs == {Hundredths(GlucoseMin) - 1, Hundredths(GlucoseMin),
                  Hundredths(GlucoseMax), Hundredths(GlucoseMax) + 1}
CarbsInputs == {None, Some(Hundredths(-5))}
DoseInputs == {None, Some(Hundredths(-1))}
DurationInputs == {Hundredths(30), Hundredths(-1)}
LimitInputs == {LimitMin - 1, LimitMin, LimitMax, LimitMax + 1}
DaysInputs == {None, Some(DaysMin), Some(DaysMax + 1)}
WindowInputs == {DaysMin - 1, DaysMin, DaysMax}

EmptyStore == [c \in Collections |-> <<>>]

Init ==
    /\ db \in {"None", "up"}
    /\ now \in Times
    /\ store = EmptyStore
    /\ nextId = 1
    /\ resp = [op |-> "none", status |-> 0]

\* Every endpoint and the store's outages, at one instant of the clock; each
\* record is stamped by the client with that instant.
Next ==
    \/ \E v \in GlucoseInputs : create_glucose(now, v)
    \/ \E carbs \in CarbsInputs : create_meal(now, carbs)
    \/ \E dose \in DoseInputs : create_med(now, dose)
    \/ \E dur \in DurationInputs : create_activity(now, dur)
    \/ create_reminder("check glucose")
    \/ \E limit \in LimitInputs, days \in DaysInputs : list_glucose(limit, days)
    \/ \E limit \in LimitInputs, days \in DaysInputs : list_meals(limit, days)
    \/ \E limit \in LimitInputs, days \in DaysInputs : list_meds(limit, days)
    \/ \E limit \in LimitInputs, days \in DaysInputs : list_activities(limit, days)
    \/ \E limit \in LimitInputs : list_reminders(limit)
    \/ \E days \in WindowInputs : get_summary(days)
    \/ StoreDown
    \/ StoreUp

Spec == Init /\ [][Next]_vars

\* ------------------------------------------- ordering and the time window
\* Readings arrive with any timestamp (late, or dated ahead of the clock);
\* reminders carry none.  The store stays reachable.
InitUp ==
    /\ db = "up"
    /\ now = 0
    /\ store = EmptyStore
    /\ nextId = 1
    /\ resp = [op |-> "none", status |-> 0]

NextRecent ==
    \/ \E ts \in Times : create_glucose(ts, Hundredths(100))
    \/ create_reminder("check glucose")
    \/ \E limit \in LimitInputs, days \in DaysInputs : list_glucose(limit, days)
    \/ \E limit \in LimitInputs : list_reminders(limit)
    \/ \E days \in WindowInputs : get_summary(days)
    \/ Tick

SpecRecent == InitUp /\ [][NextRecent]_vars

\* ------------------------------------------------- the summary statistics
SummaryValues == {Hundredths(90), Hundredths(160), Hundredths(200),
                  Hundredths(TirLow), Hundredths(TirLow) - 10, Hundredths(TirLow) + 4,
                  Hundredths(TirHigh), Hundredths(TirHigh) + 10}

\* n readings inserted at instant 0, the i-th dated i - 1.
StoredReadings(values) ==
    [i \in 1..Len(values) |->
        GlucoseReading(i - 1, values[i])
            @@ [_id |-> i, created_at |-> 0, updated_at |-> 0]]

InitSummary ==
    /\ db = "up"
    /\ now \in {0, MaxReadings + 1}
    /\ \E n \in 0..MaxReadings : \E values \in [1..n -> SummaryValues] :
          /\ store = [EmptyStore EXCEPT !["glucosereading"] = StoredReadings(values)]
          /\ nextId = n + 1
    /\ resp = [op |-> "none", status |-> 0]

NextSummary == \E days \in WindowInputs : get_summary(days)

SpecSummary == InitSummary /\ [][NextSummary]_vars

\* ================================================================ claims
Listed == resp.op = "list" /\ resp.status = 200
Summarised == resp.op = "summary" /\ resp.status = 200
Retrieved == Listed \/ Summarised

\* A list with no since filter that ran right after a successful insert
\* into the same collection.
ListedAfterInsert ==
    /\ Listed
    /\ IsSome(resp.after_insert)
    /\ resp.since = None

\* The returned item carrying the inserted id has every field of the inserted
\* record unchanged, plus an id and a creation instant.
InsertedAppears ==
    \E i \in 1..Len(resp.items) :
        LET item == resp.items[i]
            doc == Val(resp.inserted_doc)
        IN  /\ item._id = Val(resp.after_insert)
            /\ \A f \in DOMAIN doc : item[f] = doc[f]
            /\ "created_at" \in DOMAIN item
            /\ item.created_at <= now

\* The stored records of the listed collection, other than the inserted one,
\* whose timestamp is not older than the inserted record's.
NotOlderThanInserted ==
    LET docs == store[resp.collection]
        mine == CHOOSE i \in 1..Len(docs) : ObjectIdStr(docs[i]._id) = Val(resp.after_insert)
    IN  {i \in 1..Len(docs) : i # mine /\ SortKey(docs[i]) >= SortKey(docs[mine])}

\* C1 as stated: after a successful insert, a list of the same collection
\* with no since filter and any limit >= 1 contains the inserted record,
\* whatever the collection already held.
C1_Original == ListedAfterInsert => InsertedAppears

\* C1 amended: after a successful insert, a list of the same collection with
\* no since filter contains the inserted record, fields preserved and with an
\* id and creation instant, whenever fewer than limit other records of the
\* collection have a timestamp equal to or later than the inserted record's.
C1_Amended ==
    (ListedAfterInsert /\ Cardinality(NotOlderThanInserted) < resp.call_limit)
        => InsertedAppears

\* The inserted record is returned by a truncating list of a collection that
\* holds an older record as well.
C1_Witness ==
    /\ ListedAfterInsert
    /\ Len(store[resp.collection]) >= 2
    /\ Cardinality(NotOlderThanInserted) < resp.call_limit
    /\ Len(resp.items) < Len(store[resp.collection])
    /\ InsertedAppears

\* C2: in every result of list_recent, timestamps are non-increasing across
\* consecutive elements.
C2_NonIncreasing ==
    Retrieved =>
        \A i \in 1..(Len(resp.items) - 1) :
            LET a == resp.items[i]
                b == resp.items[i + 1]
            IN  ("timestamp" \in DOMAIN a /\ "timestamp" \in DOMAIN b)
                    => a.timestamp >= b.timestamp

\* A result of two records with different timestamps, the later-dated one
\* having been stored first.
C2_Witness ==
    /\ Listed
    /\ resp.collection = "glucosereading"
    /\ Len(resp.items) >= 2
    /\ resp.items[1].timestamp > resp.items[2].timestamp
    /\ resp.items[1].created_at <= resp.items[2].created_at
    /\ resp.items[1]._id # resp.items[2]._id

\* C3 as stated: a result never has more records than the limit, and every
\* call of list_recent, the summary's included, has its limit in [1,500].
C3_Original ==
    Retrieved =>
        /\ Len(resp.items) <= resp.call_limit
        /\ resp.call_limit >= 1
        /\ resp.call_limit <= 500

\* C3 amended: a result never has more records than the limit; the five list
\* endpoints call list_recent with a limit in [1,500], and the summary calls
\* it with the fixed limit 1000.
C3_Amended ==
    /\ Retrieved => Len(resp.items) <= resp.call_limit
    /\ Listed => (resp.call_limit >= 1 /\ resp.call_limit <= 500)
    /\ Summarised => resp.call_limit = 1000

\* A list that was cut to its limit.
C3_Witness ==
    /\ Listed
    /\ Len(resp.items) = resp.call_limit
    /\ Cardinality(Eligible(store[resp.collection], resp.since)) > resp.call_limit

\* The stored glucose readings dated at or after the given instant.
ReadingsSince(t) ==
    {i \in 1..Len(store["glucosereading"]) : store["glucosereading"][i].timestamp >= t}

\* C4: a summary (or list) with window d issued at instant t counts and
\* returns no record dated before t - d days, and count_readings is the
\* number of stored readings dated at or after t - d days (at most 1000 of
\* them exist); so a reading dated 2 days before a days=1 summary is not
\* counted.
C4_Window ==
    /\ (Retrieved /\ IsSome(resp.days)) =>
          /\ resp.since = Some(resp.at - Val(resp.days))
          /\ \A i \in 1..Len(resp.items) :
                resp.items[i].timestamp >= resp.at - Val(resp.days)
    /\ Summarised =>
          /\ Cardinality(ReadingsSince(resp.at - Val(resp.days))) <= 1000
                => resp.body.count_readings
                      = Cardinality(ReadingsSince(resp.at - Val(resp.days)))
          /\ \A i \in 1..Len(resp.body.recent_readings) :
                resp.body.recent_readings[i].timestamp >= resp.at - Val(resp.days)

\* A days=1 summary over a store whose only reading is dated 2 days before it
\* reports no reading.
C4_Witness ==
    /\ Summarised
    /\ resp.days = Some(1)
    /\ Len(store["glucosereading"]) = 1
    /\ store["glucosereading"][1].timestamp = resp.at - 2
    /\ resp.body.count_readings = 0

\* The values of the n retrieved readings, in hundredths of mg/dL.
RetrievedValues == [i \in 1..Len(resp.items) |-> resp.items[i].value_mgdl]

Abs(x) == IF x < 0 THEN 0 - x ELSE x

\* x is a multiple of 1/den nearest to num/den: |x * den - num| <= den / 2.
Nearest(x, num, den) == 2 * Abs(x * den - num) <= den

\* C5: over n > 0 retrieved readings, time_in_range_pct is 100 * k / n rounded
\* to one decimal place, k being the number of readings with
\* 70 <= value_mgdl <= 180, both bounds inclusive.
C5_TimeInRange ==
    (Summarised /\ Len(resp.items) > 0) =>
        LET n == Len(resp.items)
            k == Cardinality({i \in 1..n : /\ RetrievedValues[i] >= 7000
                                           /\ RetrievedValues[i] <= 18000})
        IN  /\ IsSome(resp.body.time_in_range_pct)
            /\ Nearest(Val(resp.body.time_in_range_pct), 1000 * k, n)

\* A summary over readings of exactly 70, exactly 180 and 180.1: two of the
\* three are in range, 66.7 percent.
C5_Witness ==
    /\ Summarised
    /\ Len(resp.items) = 3
    /\ {RetrievedValues[i] : i \in 1..3} = {7000, 18000, 18010}
    /\ resp.body.time_in_range_pct = Some(667)

\* count = n, min and max exact, avg the mean rounded to one decimal place.
C6_CountMinMaxAvg ==
    LET n == Len(resp.items)
        b == resp.body
    IN  /\ b.count_readings = n
        /\ IsSome(b.min_mgdl) /\ IsSome(b.max_mgdl) /\ IsSome(b.avg_mgdl)
        /\ \E i \in 1..n : RetrievedValues[i] = Val(b.min_mgdl)
        /\ \A i \in 1..n : RetrievedValues[i] >= Val(b.min_mgdl)
        /\ \E i \in 1..n : RetrievedValues[i] = Val(b.max_mgdl)
        /\ \A i \in 1..n : RetrievedValues[i] <= Val(b.max_mgdl)
        /\ Val(b.avg_mgdl) % 10 = 0
        /\ Nearest(Val(b.avg_mgdl) \div 10, SumSeq(RetrievedValues), 10 * n)

\* C6 as stated: count, exact min and max, avg rounded to one decimal place,
\* hence min_mgdl <= avg_mgdl <= max_mgdl.
C6_Original ==
    (Summarised /\ Len(resp.items) > 0) =>
        /\ C6_CountMinMaxAvg
        /\ Val(resp.body.min_mgdl) <= Val(resp.body.avg_mgdl)
        /\ Val(resp.body.avg_mgdl) <= Val(resp.body.max_mgdl)

\* C6 amended: count_readings = n, min_mgdl and max_mgdl are the exact minimum
\* and maximum, avg_mgdl is the mean rounded to one decimal place; the rounded
\* avg_mgdl lies within 0.05 of the interval [min_mgdl, max_mgdl], not
\* necessarily inside it.
C6_Amended ==
    (Summarised /\ Len(resp.items) > 0) =>
        /\ C6_CountMinMaxAvg
        /\ Val(resp.body.min_mgdl) - 5 <= Val(resp.body.avg_mgdl)
        /\ Val(resp.body.avg_mgdl) <= Val(resp.body.max_mgdl) + 5

\* The summary of readings 90, 160 and 200: count 3, avg 150.0, min 90,
\* max 200.
C6_Witness ==
    /\ Summarised
    /\ Len(resp.items) = 3
    /\ {RetrievedValues[i] : i \in 1..3} = {9000, 16000, 20000}
    /\ resp.body.count_readings = 3
    /\ resp.body.avg_mgdl = Some(15000)
    /\ resp.body.min_mgdl = Some(9000)
    /\ resp.body.max_mgdl = Some(20000)

\* C7: a summary with zero eligible readings succeeds with count_readings = 0,
\* the four statistics absent and recent_readings empty; the four statistics
\* are all present whenever count_readings > 0.
C7_EmptySummary ==
    (resp.op = "summary" /\ resp.status # 422) =>
        /\ resp.status = 200
        /\ ReadingsSince(Val(resp.since)) = {} =>
              /\ resp.body.count_readings = 0
              /\ resp.body.avg_mgdl = None
              /\ resp.body.min_mgdl = None
              /\ resp.body.max_mgdl = None
              /\ resp.body.time_in_range_pct = None
              /\ resp.body.recent_readings = <<>>
        /\ resp.body.count_readings > 0 =>
              /\ IsSome(resp.body.avg_mgdl)
              /\ IsSome(resp.body.min_mgdl)
              /\ IsSome(resp.body.max_mgdl)
              /\ IsSome(resp.body.time_in_range_pct)

\* A successful summary of a store whose readings all fall outside the
\* window.
C7_Witness ==
    /\ Summarised
    /\ Len(store["glucosereading"]) > 0
    /\ ReadingsSince(Val(resp.since)) = {}
    /\ resp.body.count_readings = 0
    /\ resp.body.avg_mgdl = None

Created == resp.op = "create"
CreatedGlucose == Created /\ resp.collection = "glucosereading"
CreatedMeal == Created /\ resp.collection = "meal"

\* 20 <= value_mgdl <= 600
GlucoseInBounds(doc) == doc.value_mgdl >= 2000 /\ doc.value_mgdl <= 60000

\* The stored record carrying the id the insert returned.
IsStored(c, id, doc) ==
    \E i \in 1..Len(store[c]) :
        /\ ObjectIdStr(store[c][i]._id) = id
        /\ \A f \in DOMAIN doc : store[c][i][f] = doc[f]

\* No Meal with a negative carbs_g is in the store.
NoNegativeCarbs ==
    \A i \in 1..Len(store["meal"]) :
        IsSome(store["meal"][i].carbs_g) => Val(store["meal"][i].carbs_g) >= 0

\* C8 as stated: a GlucoseReading is inserted iff 20 <= value_mgdl <= 600; a
\* Meal with negative carbs_g is rejected and not persisted, one without
\* carbs_g is inserted with carbs_g unset.
C8_Original ==
    /\ CreatedGlucose => (resp.status = 200 <=> GlucoseInBounds(resp.doc))
    /\ NoNegativeCarbs
    /\ (CreatedMeal /\ IsSome(resp.doc.carbs_g) /\ Val(resp.doc.carbs_g) < 0)
          => resp.status = 422
    /\ (CreatedMeal /\ resp.doc.carbs_g = None)
          => /\ resp.status = 200
             /\ IsStored("meal", resp.inserted_id, resp.doc)

\* C8 amended: while the store is available, a GlucoseReading is inserted iff
\* 20 <= value_mgdl <= 600, and a Meal without carbs_g is inserted with
\* carbs_g unset; a reading outside the bounds and a Meal with negative
\* carbs_g are rejected with nothing persisted, whatever the store's state.
C8_Amended ==
    /\ CreatedGlucose =>
          /\ resp.status = 422 <=> ~GlucoseInBounds(resp.doc)
          /\ resp.db = "up" => (resp.status = 200 <=> GlucoseInBounds(resp.doc))
    /\ \A i \in 1..Len(store["glucosereading"]) :
          GlucoseInBounds(store["glucosereading"][i])
    /\ NoNegativeCarbs
    /\ (CreatedMeal /\ IsSome(resp.doc.carbs_g) /\ Val(resp.doc.carbs_g) < 0)
          => resp.status = 422
    /\ (CreatedMeal /\ resp.doc.carbs_g = None /\ resp.db = "up")
          => /\ resp.status = 200
             /\ IsStored("meal", resp.inserted_id, resp.doc)

\* A reading of exactly 600 mg/dL was inserted after one of exactly 20 mg/dL.
C8_Witness ==
    /\ CreatedGlucose
    /\ resp.status = 200
    /\ resp.doc.value_mgdl = 60000
    /\ IsStored("glucosereading", resp.inserted_id, resp.doc)
    /\ \E i \in 1..Len(store["glucosereading"]) :
          store["glucosereading"][i].value_mgdl = 2000

\* The request body of an insert response satisfies its variant's constraints.
ValidRequest(r) ==
    CASE r.collection = "glucosereading" -> GlucoseInBounds(r.doc)
      [] r.collection = "meal" -> (IsSome(r.doc.carbs_g) => Val(r.doc.carbs_g) >= 0)
      [] r.collection = "medicationlog" ->
            (IsSome(r.doc.dose_units) => Val(r.doc.dose_units) >= 0)
      [] r.collection = "activity" -> r.doc.duration_min >= 0
      [] OTHER -> TRUE

\* The record an insert persisted: the last of its collection, carrying the
\* returned id.
Persisted(c) ==
    /\ Len(store'[c]) = Len(store[c]) + 1
    /\ SubSeq(store'[c], 1, Len(store[c])) = store[c]
    /\ ObjectIdStr(store'[c][Len(store'[c])]._id) = resp'.inserted_id
    /\ \A o \in Collections \ {c} : store'[o] = store[o]

\* C9: while the store is not configured or unavailable, every insert, list
\* and summary call that reaches the store layer fails (500) after at most
\* one attempt and leaves the stored records unchanged; an insert either
\* returns an id with the record persisted, or fails with nothing persisted.
C9_Unavailable ==
    [][/\ db # "up" =>
            /\ store' = store
            /\ resp' # resp => /\ resp'.status \in {422, 500}
                               /\ resp'.status = 500 => resp'.store_calls <= 1
                               /\ (resp'.op = "create" /\ ValidRequest(resp'))
                                     => resp'.status = 500
       /\ (resp' # resp /\ resp'.op = "create") =>
            IF resp'.status = 200
            THEN Persisted(resp'.collection)
            ELSE store' = store]_vars

\* An insert failed on an unreachable store that already holds a record.
C9_Witness ==
    /\ Created
    /\ resp.status = 500
    /\ db = "down"
    /\ TotalDocs > 0

\* The ids of a collection.
Ids(docs) == {docs[i]._id : i \in 1..Len(docs)}

\* C10: the only change to the store is a successful insert appending one
\* record whose id is new to its collection; existing records, their ids and
\* created_at stay as they are, and list and summary change nothing.
C10_AppendOnly ==
    [][/\ \A c \in Collections :
            \/ store'[c] = store[c]
            \/ /\ resp'.op = "create" /\ resp'.status = 200 /\ resp'.collection = c
               /\ Len(store'[c]) = Len(store[c]) + 1
               /\ SubSeq(store'[c], 1, Len(store[c])) = store[c]
               /\ store'[c][Len(store'[c])]._id \notin Ids(store[c])
               /\ \A o \in Collections \ {c} : store'[o] = store[o]
       /\ (resp' # resp /\ resp'.op \in {"list", "summary"}) => store' = store]_vars

\* Two stored records with the same content and different ids, after a list.
C10_Witness ==
    /\ Listed
    /\ \E i, j \in 1..Len(store["glucosereading"]) :
          LET a == store["glucosereading"][i]
              b == store["glucosereading"][j]
          IN  /\ i # j
              /\ a._id # b._id
              /\ a.timestamp = b.timestamp
              /\ a.value_mgdl = b.value_mgdl

====
